---- MODULE Spec2Model ----
(***************************************************************************)
(* Model of wasd_viewport_controls (src/__init__.py): the key-event filter *)
(* CameraControlFilter with its movement timer and per-tick camera update, *)
(* and the ViewportControlPanel that installs it and sets the move step.   *)
(*                                                                         *)
(* Numbers.  The code computes with doubles.  The model uses fixed point:  *)
(*   - moveStep is held in units of 1/STEP_DIV (hundredths), the unit of   *)
(*     the slider, so float(val)/100.0 is the integer val in that unit;    *)
(*   - positions, lengths, direction components and matrix entries are     *)
(*     held in units of 1/FixedOne (thousandths); products are rescaled    *)
(*     and rounded to the nearest unit (RDiv).                             *)
(* The Maya scene is not program state: every query of it made by a tick   *)
(* is an input of the tick (focused panel, camera frame), and every call   *)
(* the handler makes is recorded in calls, camRead and camSet.             *)
(***************************************************************************)
EXTENDS Integers, Sequences, FiniteSets, TLC

\* ------------------------------------------------------------------ bounds
\* the slider values tried are the default, the two ends of the slider's range
\* and the values up to SliderOver below and above the range
SliderOver == 1

\* ------------------------------------------------------- program constants
STEP_MIN == 1
STEP_MAX == 20
STEP_DIV == 100
MOVE_SCALE_DIV == 10
DefaultMoveStep == 10
FixedOne == STEP_DIV * MOVE_SCALE_DIV

\* ------------------------------------------------------------------- keys
Key_Alt == "Alt"
Key_F == "F"
NavKeys == {"A", "D", "W", "S", "E", "Q"}
OtherKeys == {"X"}
Keys == {Key_Alt, Key_F} \cup NavKeys \cup OtherKeys

\* --------------------------------------------------------- vector algebra
ZeroVec == <<0, 0, 0>>

VecAdd(a, b) == <<a[1] + b[1], a[2] + b[2], a[3] + b[3]>>

VecSub(a, b) == <<a[1] - b[1], a[2] - b[2], a[3] - b[3]>>

\* a / b rounded to the nearest integer, halves away from zero (b > 0)
RDiv(a, b) ==
    IF a >= 0 THEN (2 * a + b) \div (2 * b)
              ELSE -((2 * (-a) + b) \div (2 * b))

RECURSIVE IsqrtBetween(_, _, _)
\* the largest r in lo..hi with r * r <= n
IsqrtBetween(n, lo, hi) ==
    IF lo >= hi THEN lo
    ELSE LET mid == (lo + hi + 1) \div 2
         IN  IF mid * mid <= n THEN IsqrtBetween(n, mid, hi)
                              ELSE IsqrtBetween(n, lo, mid - 1)

\* square root of n rounded to the nearest integer
\* (the local function takes its argument as a value, computed once)
Isqrt(n) ==
    LET root[m \in Nat] ==
            LET r == IsqrtBetween(m, 0, IF m < 4194304 THEN 2048 ELSE 46340)
            IN  IF m - r * r > r THEN r + 1 ELSE r
    IN  root[n]

\* MVector.length()
Length(v) == Isqrt(v[1] * v[1] + v[2] * v[2] + v[3] * v[3])

\* MVector.normal(); the zero vector is returned unchanged
Normal(v) ==
    LET normal[w \in Int \X Int \X Int] ==
            LET len == Length(w)
            IN  IF len = 0 THEN w
                ELSE <<RDiv(w[1] * FixedOne, len),
                       RDiv(w[2] * FixedOne, len),
                       RDiv(w[3] * FixedOne, len)>>
    IN  normal[v]

\* MVector * MMatrix: row vector times the 3x3 part of the matrix
VecMat(v, m) ==
    LET row[w \in Int \X Int \X Int] ==
            <<RDiv(w[1] * m[1][1] + w[2] * m[2][1] + w[3] * m[3][1], FixedOne),
              RDiv(w[1] * m[1][2] + w[2] * m[2][2] + w[3] * m[3][2], FixedOne),
              RDiv(w[1] * m[1][3] + w[2] * m[2][3] + w[3] * m[3][3], FixedOne)>>
    IN  row[v]

\* MVector * scalar, the scalar in units of 1/FixedOne
VecScale(v, d) ==
    LET scaled[w \in Int \X Int \X Int, e \in Int] ==
            <<RDiv(w[1] * e, FixedOne), RDiv(w[2] * e, FixedOne), RDiv(w[3] * e, FixedOne)>>
    IN  scaled[v, d]

\* clamp(value, min_value, max_value)
Min(a, b) == IF a <= b THEN a ELSE b

Max(a, b) == IF a >= b THEN a ELSE b

clamp_swapped(value, min_value, max_value) == Min(min_value, Max(max_value, value))

clamp(value, min_value, max_value) == Max(min_value, Min(max_value, value))

\* ------------------------------------------------------ direction table
KEY_VECTORS ==
    [k \in NavKeys |->
        CASE k = "A" -> <<-FixedOne, 0, 0>>
          [] k = "D" -> <<FixedOne, 0, 0>>
          [] k = "W" -> <<0, 0, -FixedOne>>
          [] k = "S" -> <<0, 0, FixedOne>>
          [] k = "E" -> <<0, FixedOne, 0>>
          [] k = "Q" -> <<0, -FixedOne, 0>>]

\* ---------------------------------------------------- the scene (inputs)
NoPanel == ""
Panels == {NoPanel, "modelPanel4", "outlinerPanel1"}

\* cmds.getPanel(typeOf=panel)
PanelType(panel) ==
    IF panel = "modelPanel4" THEN "modelPanel" ELSE "outlinerPanel"

IdentityMat == <<<<FixedOne, 0, 0>>, <<0, FixedOne, 0>>, <<0, 0, FixedOne>>>>
\* rotation about the Y axis with cosine 0.6 and sine 0.8
RotatedMat == <<<<600, 0, -800>>, <<0, FixedOne, 0>>, <<800, 0, 600>>>>
\* a matrix that is not orthonormal: uniform scale 2
ScaledMat == <<<<2 * FixedOne, 0, 0>>, <<0, 2 * FixedOne, 0>>, <<0, 0, 2 * FixedOne>>>>

CameraPositions == {<<0, 0, 10000>>, <<3000, 4000, 0>>}
CameraMatrices == {IdentityMat, RotatedMat, ScaledMat}

\* the camera frames a tick may read: position, centre of interest, matrix;
\* the last one has the camera on its centre of interest
CameraFrames ==
    [camPos : CameraPositions, coiPos : {ZeroVec}, camMat : CameraMatrices]
        \cup {[camPos |-> <<0, 0, 10000>>, coiPos |-> <<0, 0, 10000>>,
               camMat |-> IdentityMat]}

NoCam == [camPos |-> ZeroVec, coiPos |-> ZeroVec, camMat |-> <<>>]

NoPos == <<>>

\* ------------------------------------------------------------- state
VARIABLES
    altPressed,        \* CameraControlFilter._altPressed
    movingKeys,        \* CameraControlFilter._movingKeys
    moveTimerActive,   \* CameraControlFilter.moveTimer.isActive()
    moveStep,          \* CameraControlFilter.moveStep, in units of 1/STEP_DIV
    isInstalled,       \* ViewportControlPanel.isInstalled
    eventFilters,      \* the event filters installed on mayaMainWindow
    hudCount,          \* headsUpDisplay objects named wasd_viewport_controls
    enabledChecked,    \* enabledButton.isChecked()
    enabledText,       \* enabledButton.text()
    stepSliderValue,   \* the value last delivered by stepSlider.valueChanged
    stepValueLabel,    \* stepValueLabel.text(), the number shown, in 1/1000
    lastOp,            \* the handler that ran last
    prevKeys,          \* _movingKeys when that handler was entered
    prevInstalled,     \* isInstalled when that handler was entered
    focusPanel,        \* what getPanel(withFocus=True) returns at a tick
    lastKey,           \* its event.key(), for a key event
    lastRepeat,        \* its event.isAutoRepeat(), for a key event
    handled,           \* what eventFilter returned, for an event
    timerOp,           \* the call it made on moveTimer: start, stop or none
    chordPhase,        \* idle after construction or a key-up of the modifier,
                       \* modifier after a key-down of the modifier since,
                       \* armed after a non-repeat navigation key-down since
    prevCamPos,        \* at a tick, the camera position read by the handler
                       \* before it if that was a tick that read one
    moveVector,        \* moveCameraLoop's composite vector before normal()
    calls,             \* the scene calls made by the handler that ran last
    camRead,           \* the camera frame it queried, NoCam if none
    camSet             \* the position it wrote with xform, NoPos if none

vars == <<altPressed, movingKeys, moveTimerActive, moveStep, isInstalled,
          eventFilters, hudCount, enabledChecked, enabledText,
          stepSliderValue, stepValueLabel, lastOp, prevKeys, prevInstalled,
          focusPanel, lastKey, lastRepeat, handled, timerOp, chordPhase,
          prevCamPos, moveVector, calls, camRead, camSet>>

filterVars == <<altPressed, movingKeys, moveTimerActive>>
panelVars == <<isInstalled, eventFilters, hudCount, enabledChecked, enabledText>>
stepVars == <<moveStep, stepSliderValue, stepValueLabel>>

\* f"{step:.1f}": the step shown with one decimal
FormatStep_oneDecimal(step) == RDiv(step, 10) * (FixedOne \div 10)

\* f"{step:.3f}": the step shown with three decimals, as a count of 1/1000
FormatStep(step) == step * (FixedOne \div STEP_DIV)

\* --------------------------------------------------- CameraControlFilter
\* _startMovementTimer: the timer's activity after the call
startMovementTimer_never(keys, active) == active

\* _startMovementTimer with the test of the held keys inverted
startMovementTimer_whenHeld(keys, active) ==
    IF keys # {} /\ ~active THEN TRUE ELSE active

startMovementTimer(keys, active) ==
    IF keys = {} /\ ~active THEN TRUE ELSE active

\* _stopMovementTimer: the timer's activity after the call
stopMovementTimer(active) ==
    IF active THEN FALSE ELSE active

\* whether _startMovementTimer reaches moveTimer.start() (line 46)
startRuns_always(keys, active) == TRUE

startRuns(keys, active) == keys = {} /\ ~active

\* whether _stopMovementTimer reaches moveTimer.stop() (line 50)
stopRuns(active) == active

\* the result of eventFilter for an event that changes nothing
Ignored(alt, keys, active) ==
    [alt |-> alt, keys |-> keys, active |-> active, calls |-> <<>>,
     timerOp |-> "none", handled |-> FALSE]

\* the result of the navigation branch of eventFilter (lines 66-67)
Accepted(alt, keys, active, key) ==
    [alt |-> alt, keys |-> keys \cup {key},
     active |-> startMovementTimer(keys, active), calls |-> <<>>,
     timerOp |-> IF startRuns(keys, active) THEN "start" ELSE "none",
     handled |-> FALSE]

\* the result of the frame branch of eventFilter (lines 60-61)
Framed(alt, keys, active) ==
    [alt |-> alt, keys |-> keys, active |-> active,
     calls |-> <<"LookAtSelection", "FrameSelected">>,
     timerOp |-> "none", handled |-> FALSE]

\* keyPressEvent that also accepts an auto-repeat key-down of a navigation key
keyPressEvent_acceptRepeat(alt, keys, active, key, isAutoRepeat) ==
    IF key = Key_Alt THEN Ignored(TRUE, keys, active)
    ELSE IF alt /\ key = Key_F THEN Framed(alt, keys, active)
    ELSE IF alt /\ key \in DOMAIN KEY_VECTORS THEN Accepted(alt, keys, active, key)
    ELSE Ignored(alt, keys, active)

\* keyPressEvent that accepts any key that is not the modifier or the frame key
keyPressEvent_anyKey(alt, keys, active, key, isAutoRepeat) ==
    IF key = Key_Alt THEN Ignored(TRUE, keys, active)
    ELSE IF alt /\ key = Key_F THEN Framed(alt, keys, active)
    ELSE IF alt /\ ~isAutoRepeat THEN Accepted(alt, keys, active, key)
    ELSE Ignored(alt, keys, active)

\* keyPressEvent that accepts a navigation key without the chord
keyPressEvent_noChord(alt, keys, active, key, isAutoRepeat) ==
    IF key = Key_Alt THEN Ignored(TRUE, keys, active)
    ELSE IF alt /\ key = Key_F THEN Framed(alt, keys, active)
    ELSE IF key \in DOMAIN KEY_VECTORS /\ ~isAutoRepeat
        THEN Accepted(alt, keys, active, key)
    ELSE Ignored(alt, keys, active)

\* keyPressEvent that reports the frame key as handled
keyPressEvent_consumesFrame(alt, keys, active, key, isAutoRepeat) ==
    IF key = Key_Alt THEN Ignored(TRUE, keys, active)
    ELSE IF alt /\ key = Key_F
        THEN [Framed(alt, keys, active) EXCEPT !.handled = TRUE]
    ELSE IF alt /\ key \in DOMAIN KEY_VECTORS /\ ~isAutoRepeat
        THEN Accepted(alt, keys, active, key)
    ELSE Ignored(alt, keys, active)

\* eventFilter, QEvent.KeyPress branch: the filter's state after the event,
\* the scene calls made, the timer call made and the value returned
keyPressEvent(alt, keys, active, key, isAutoRepeat) ==
    IF key = Key_Alt THEN Ignored(TRUE, keys, active)
    ELSE IF alt /\ key = Key_F THEN Framed(alt, keys, active)
    ELSE IF alt /\ key \in DOMAIN KEY_VECTORS /\ ~isAutoRepeat
        THEN Accepted(alt, keys, active, key)
    ELSE Ignored(alt, keys, active)

\* the result of the KeyRelease branch once the flag and the set are updated:
\* the timer is stopped when the chord is off or no key is held (lines 81-82)
Released(alt1, keys2, active) ==
    LET stop == ~alt1 \/ keys2 = {}
    IN  [alt |-> alt1, keys |-> keys2,
         active |-> IF stop THEN stopMovementTimer(active) ELSE active,
         calls |-> <<>>,
         timerOp |-> IF stop /\ stopRuns(active) THEN "stop" ELSE "none",
         handled |-> FALSE]

keyReleaseEvent_keepKeys(alt, keys, active, key, isAutoRepeat) ==
    LET alt1 == IF key = Key_Alt THEN FALSE ELSE alt
        keys2 == IF ~isAutoRepeat /\ key \in keys THEN keys \ {key} ELSE keys
    IN  Released(alt1, keys2, active)

keyReleaseEvent_anyRepeat(alt, keys, active, key, isAutoRepeat) ==
    LET alt1 == IF key = Key_Alt THEN FALSE ELSE alt
        keys1 == IF key = Key_Alt THEN {} ELSE keys
        keys2 == IF key \in keys1 THEN keys1 \ {key} ELSE keys1
    IN  Released(alt1, keys2, active)

\* eventFilter, QEvent.KeyRelease branch
keyReleaseEvent(alt, keys, active, key, isAutoRepeat) ==
    LET alt1 == IF key = Key_Alt THEN FALSE ELSE alt
        keys1 == IF key = Key_Alt THEN {} ELSE keys
        keys2 == IF ~isAutoRepeat /\ key \in keys1 THEN keys1 \ {key} ELSE keys1
    IN  Released(alt1, keys2, active)

RECURSIVE SumKeyVectors(_)
\* the loop of moveCameraLoop: moveVector += KEY_VECTORS.get(key, zero)
SumKeyVectors(keys) ==
    IF keys = {} THEN ZeroVec
    ELSE LET key == CHOOSE k \in keys : TRUE
         IN  VecAdd(IF key \in DOMAIN KEY_VECTORS THEN KEY_VECTORS[key] ELSE ZeroVec,
                    SumKeyVectors(keys \ {key}))

NoUpdate == [calls |-> <<>>, camRead |-> NoCam, camSet |-> NoPos]

\* the camera queries of moveCameraLocal, then the write and the redraw
CameraCalls ==
    <<"modelEditor.camera", "xform.translation", "camera.worldCenterOfInterest",
      "getAttr.worldMatrix", "xform.setTranslation", "refresh">>

\* moveCameraLocal with the subtraction of line 113 and the sum of line 118
\* taken the other way round
moveCameraLocal_backwards(localDir, distance, panel, cam) ==
    IF panel = NoPanel THEN
        [calls |-> <<"getPanel.withFocus">>, camRead |-> NoCam, camSet |-> NoPos]
    ELSE IF PanelType(panel) # "modelPanel" THEN
        [calls |-> <<"getPanel.withFocus", "getPanel.typeOf">>,
         camRead |-> NoCam, camSet |-> NoPos]
    ELSE
        LET scaleMetric == Length(VecSub(cam.coiPos, cam.camPos))
            scaledDistance == RDiv(distance * scaleMetric, STEP_DIV * MOVE_SCALE_DIV)
            worldDir == Normal(VecMat(localDir, cam.camMat))
            newCamPos == VecSub(cam.camPos, VecScale(worldDir, scaledDistance))
        IN  [calls |-> <<"getPanel.withFocus", "getPanel.typeOf">> \o CameraCalls,
             camRead |-> cam, camSet |-> newCamPos]

\* moveCameraLocal computing from a camera frame remembered from an earlier
\* tick instead of the one it has just queried
moveCameraLocal_stale(localDir, distance, panel, cam) ==
    IF panel = NoPanel THEN
        [calls |-> <<"getPanel.withFocus">>, camRead |-> NoCam, camSet |-> NoPos]
    ELSE IF PanelType(panel) # "modelPanel" THEN
        [calls |-> <<"getPanel.withFocus", "getPanel.typeOf">>,
         camRead |-> NoCam, camSet |-> NoPos]
    ELSE
        LET old == [camPos |-> <<0, 0, 10000>>, coiPos |-> ZeroVec,
                    camMat |-> IdentityMat]
            scaleMetric == Length(VecSub(old.coiPos, old.camPos))
            scaledDistance == RDiv(distance * scaleMetric, STEP_DIV * MOVE_SCALE_DIV)
            worldDir == Normal(VecMat(localDir, old.camMat))
            newCamPos == VecAdd(old.camPos, VecScale(worldDir, scaledDistance))
        IN  [calls |-> <<"getPanel.withFocus", "getPanel.typeOf">> \o CameraCalls,
             camRead |-> cam, camSet |-> newCamPos]

\* moveCameraLocal without the test of the focused panel's type
moveCameraLocal_anyPanel(localDir, distance, panel, cam) ==
    LET scaleMetric == Length(VecSub(cam.coiPos, cam.camPos))
        scaledDistance == RDiv(distance * scaleMetric, STEP_DIV * MOVE_SCALE_DIV)
        worldDir == Normal(VecMat(localDir, cam.camMat))
        newCamPos == VecAdd(cam.camPos, VecScale(worldDir, scaledDistance))
    IN  [calls |-> <<"getPanel.withFocus", "getPanel.typeOf">> \o CameraCalls,
         camRead |-> cam, camSet |-> newCamPos]

\* moveCameraLocal(localDir, distance): panel is what getPanel(withFocus=True)
\* returns and cam what the camera queries return; the result is the calls
\* made, the frame read and the position written
moveCameraLocal(localDir, distance, panel, cam) ==
    IF panel = NoPanel THEN
        [calls |-> <<"getPanel.withFocus">>, camRead |-> NoCam, camSet |-> NoPos]
    ELSE IF PanelType(panel) # "modelPanel" THEN
        [calls |-> <<"getPanel.withFocus", "getPanel.typeOf">>,
         camRead |-> NoCam, camSet |-> NoPos]
    ELSE
        LET scaleMetric == Length(VecSub(cam.coiPos, cam.camPos))
            scaledDistance == RDiv(distance * scaleMetric, STEP_DIV * MOVE_SCALE_DIV)
            worldDir == Normal(VecMat(localDir, cam.camMat))
            newCamPos == VecAdd(cam.camPos, VecScale(worldDir, scaledDistance))
        IN  [calls |-> <<"getPanel.withFocus", "getPanel.typeOf">> \o CameraCalls,
             camRead |-> cam, camSet |-> newCamPos]

\* moveCameraLoop without the test of the composite vector's length
moveCameraLoop_noLengthTest(alt, keys, step, panel, cam) ==
    IF ~alt \/ keys = {} THEN [moveVector |-> ZeroVec] @@ NoUpdate
    ELSE LET v == SumKeyVectors(keys)
         IN  [moveVector |-> v] @@ moveCameraLocal(Normal(v), step, panel, cam)

\* moveCameraLoop without the test of the chord and the held keys
moveCameraLoop_noGuard(alt, keys, step, panel, cam) ==
    LET v == SumKeyVectors(keys)
    IN  IF Length(v) > 0
        THEN [moveVector |-> v] @@ moveCameraLocal(Normal(v), step, panel, cam)
        ELSE [moveVector |-> v] @@ NoUpdate

\* moveCameraLoop: the timer's callback
moveCameraLoop(alt, keys, step, panel, cam) ==
    IF ~alt \/ keys = {} THEN [moveVector |-> ZeroVec] @@ NoUpdate
    ELSE LET v == SumKeyVectors(keys)
         IN  IF Length(v) > 0
             THEN [moveVector |-> v] @@ moveCameraLocal(Normal(v), step, panel, cam)
             ELSE [moveVector |-> v] @@ NoUpdate

\* -------------------------------------------------- ViewportControlPanel
\* QObject.installEventFilter: a filter already installed is moved, not doubled
InstallEventFilter(filters, f) ==
    <<f>> \o SelectSeq(filters, LAMBDA g : g # f)

\* QObject.removeEventFilter
RemoveEventFilter(filters, f) ==
    SelectSeq(filters, LAMBDA g : g # f)

\* onStepSliderChanged: the step stored for a slider value
StepForSlider(val) == clamp(val, STEP_MIN, STEP_MAX)

SliderInputs ==
    {DefaultMoveStep}
        \cup ((STEP_MIN - SliderOver) .. STEP_MIN)
        \cup (STEP_MAX .. (STEP_MAX + SliderOver))

\* installCameraControls: the subscription, the flag and the overlay after it
installCameraControls(filters, huds) ==
    [eventFilters |-> InstallEventFilter(filters, "cameraFilter"),
     isInstalled |-> TRUE,
     hudCount |-> huds + 1]

\* uninstallCameraControls: the overlay is removed if it exists
uninstallCameraControls(filters, huds) ==
    [eventFilters |-> RemoveEventFilter(filters, "cameraFilter"),
     isInstalled |-> FALSE,
     hudCount |-> IF huds > 0 THEN 0 ELSE huds]

\* onEnabledToggled without the isInstalled guards
onEnabledToggled_unguarded(checked, installed, filters, huds) ==
    IF checked THEN installCameraControls(filters, huds)
    ELSE uninstallCameraControls(filters, huds)

\* onEnabledToggled: install or uninstall, guarded by isInstalled
onEnabledToggled(checked, installed, filters, huds) ==
    IF checked /\ ~installed THEN installCameraControls(filters, huds)
    ELSE IF ~checked /\ installed THEN uninstallCameraControls(filters, huds)
    ELSE [eventFilters |-> filters, isInstalled |-> installed, hudCount |-> huds]


\* ---------------------------------------------------------------- Init
\* the state after ViewportControlPanel.__init__: refreshFromFilter has set
\* the slider to the default step, which ran onStepSliderChanged once
Init ==
    /\ altPressed = FALSE
    /\ movingKeys = {}
    /\ moveTimerActive = FALSE
    /\ moveStep = StepForSlider(clamp(DefaultMoveStep, STEP_MIN, STEP_MAX))
    /\ isInstalled = FALSE
    /\ eventFilters = <<>>
    /\ hudCount = 0
    /\ enabledChecked = FALSE
    /\ enabledText = "ENABLE"
    /\ stepSliderValue = clamp(DefaultMoveStep, STEP_MIN, STEP_MAX)
    /\ stepValueLabel = FormatStep(DefaultMoveStep)
    /\ lastOp = "init"
    /\ prevKeys = {}
    /\ prevInstalled = FALSE
    /\ focusPanel = NoPanel
    /\ lastKey = ""
    /\ lastRepeat = FALSE
    /\ handled = FALSE
    /\ timerOp = "none"
    /\ chordPhase = "idle"
    /\ prevCamPos = NoPos
    /\ moveVector = ZeroVec
    /\ calls = <<>>
    /\ camRead = NoCam
    /\ camSet = NoPos

\* -------------------------------------------------------------- actions
\* what every handler leaves in the history of the handler before it
Remember ==
    /\ prevKeys' = movingKeys
    /\ prevInstalled' = isInstalled

\* a handler that reads and writes no camera
NoCamera ==
    /\ moveVector' = ZeroVec
    /\ camRead' = NoCam
    /\ camSet' = NoPos
    /\ focusPanel' = NoPanel
    /\ prevCamPos' = NoPos

\* the phase of the chord after a key-down
PhaseAfterPress(phase, key, isAutoRepeat) ==
    IF key = Key_Alt THEN (IF phase = "idle" THEN "modifier" ELSE phase)
    ELSE IF phase = "modifier" /\ key \in NavKeys /\ ~isAutoRepeat THEN "armed"
    ELSE phase

\* the phase of the chord after a key-up
PhaseAfterRelease(phase, key) ==
    IF key = Key_Alt THEN "idle" ELSE phase

\* eventFilter receives a KeyPress; it is called only while installed
KeyPress(key, isAutoRepeat) ==
    /\ "cameraFilter" \in { eventFilters[i] : i \in DOMAIN eventFilters }
    /\ \E r \in {keyPressEvent(altPressed, movingKeys, moveTimerActive, key, isAutoRepeat)} :
           /\ altPressed' = r.alt
           /\ movingKeys' = r.keys
           /\ moveTimerActive' = r.active
           /\ calls' = r.calls
           /\ timerOp' = r.timerOp
           /\ handled' = r.handled
    /\ lastOp' = "keyPress"
    /\ lastKey' = key
    /\ lastRepeat' = isAutoRepeat
    /\ chordPhase' = PhaseAfterPress(chordPhase, key, isAutoRepeat)
    /\ Remember
    /\ NoCamera
    /\ UNCHANGED <<panelVars, stepVars>>

\* eventFilter receives a KeyRelease
KeyRelease(key, isAutoRepeat) ==
    /\ "cameraFilter" \in { eventFilters[i] : i \in DOMAIN eventFilters }
    /\ \E r \in {keyReleaseEvent(altPressed, movingKeys, moveTimerActive, key, isAutoRepeat)} :
           /\ altPressed' = r.alt
           /\ movingKeys' = r.keys
           /\ moveTimerActive' = r.active
           /\ calls' = r.calls
           /\ timerOp' = r.timerOp
           /\ handled' = r.handled
    /\ lastOp' = "keyRelease"
    /\ lastKey' = key
    /\ lastRepeat' = isAutoRepeat
    /\ chordPhase' = PhaseAfterRelease(chordPhase, key)
    /\ Remember
    /\ NoCamera
    /\ UNCHANGED <<panelVars, stepVars>>

\* eventFilter receives an event that is neither a KeyPress nor a KeyRelease
OtherEvent ==
    /\ "cameraFilter" \in { eventFilters[i] : i \in DOMAIN eventFilters }
    /\ lastOp' = "otherEvent"
    /\ lastKey' = ""
    /\ lastRepeat' = FALSE
    /\ handled' = FALSE
    /\ timerOp' = "none"
    /\ calls' = <<>>
    /\ Remember
    /\ NoCamera
    /\ UNCHANGED <<filterVars, panelVars, stepVars, chordPhase>>

\* moveTimer.timeout: the timer fires while it is active
Tick(panel, cam) ==
    /\ moveTimerActive
    /\ \E r \in {moveCameraLoop(altPressed, movingKeys, moveStep, panel, cam)} :
           /\ moveVector' = r.moveVector
           /\ calls' = r.calls
           /\ camRead' = r.camRead
           /\ camSet' = r.camSet
    /\ lastOp' = "tick"
    /\ focusPanel' = panel
    /\ prevCamPos' = IF camRead = NoCam THEN NoPos ELSE camRead.camPos
    /\ lastKey' = ""
    /\ lastRepeat' = FALSE
    /\ handled' = FALSE
    /\ timerOp' = "none"
    /\ Remember
    /\ UNCHANGED <<filterVars, panelVars, stepVars, chordPhase>>

\* a toggle whose uninstall also resets the filter's chord and held keys
OnEnabledToggled_resetsFilter(checked) ==
    /\ \E r \in {onEnabledToggled(checked, isInstalled, eventFilters, hudCount)} :
           /\ isInstalled' = r.isInstalled
           /\ eventFilters' = r.eventFilters
           /\ hudCount' = r.hudCount
           /\ enabledText' = IF r.isInstalled THEN "DISABLE" ELSE "ENABLE"
           /\ altPressed' = (r.isInstalled /\ altPressed)
           /\ movingKeys' = IF r.isInstalled THEN movingKeys ELSE {}
    /\ enabledChecked' = checked
    /\ lastOp' = "toggle"
    /\ lastKey' = ""
    /\ lastRepeat' = FALSE
    /\ handled' = FALSE
    /\ timerOp' = "none"
    /\ calls' = <<>>
    /\ Remember
    /\ NoCamera
    /\ UNCHANGED <<moveTimerActive, stepVars, chordPhase>>

\* enabledButton.toggled(checked) runs onEnabledToggled; checked is the
\* button's state
OnEnabledToggled(checked) ==
    /\ \E r \in {onEnabledToggled(checked, isInstalled, eventFilters, hudCount)} :
           /\ isInstalled' = r.isInstalled
           /\ eventFilters' = r.eventFilters
           /\ hudCount' = r.hudCount
           /\ enabledText' = IF r.isInstalled THEN "DISABLE" ELSE "ENABLE"
    /\ enabledChecked' = checked
    /\ lastOp' = "toggle"
    /\ lastKey' = ""
    /\ lastRepeat' = FALSE
    /\ handled' = FALSE
    /\ timerOp' = "none"
    /\ calls' = <<>>
    /\ Remember
    /\ NoCamera
    /\ UNCHANGED <<filterVars, stepVars, chordPhase>>

\* stepSlider.valueChanged(val) runs onStepSliderChanged
OnStepSliderChanged(val) ==
    /\ moveStep' = StepForSlider(val)
    /\ stepValueLabel' = FormatStep(StepForSlider(val))
    /\ stepSliderValue' = val
    /\ lastOp' = "slider"
    /\ lastKey' = ""
    /\ lastRepeat' = FALSE
    /\ handled' = FALSE
    /\ timerOp' = "none"
    /\ calls' = <<>>
    /\ Remember
    /\ NoCamera
    /\ UNCHANGED <<filterVars, panelVars, chordPhase>>

Next ==
    \/ \E key \in Keys, isAutoRepeat \in BOOLEAN : KeyPress(key, isAutoRepeat)
    \/ \E key \in Keys, isAutoRepeat \in BOOLEAN : KeyRelease(key, isAutoRepeat)
    \/ OtherEvent
    \/ \E panel \in Panels, cam \in CameraFrames : Tick(panel, cam)
    \/ \E checked \in BOOLEAN : OnEnabledToggled(checked)
    \/ \E val \in SliderInputs : OnStepSliderChanged(val)

Spec == Init /\ [][Next]_vars

\* moveCameraLoop and the handlers entered with the filter's three fields in
\* any combination, also those the key handlers never leave behind (a timer
\* that is active without the chord, held keys without the chord)
InitAnyFilter ==
    /\ altPressed \in BOOLEAN
    /\ movingKeys \in SUBSET NavKeys
    /\ moveTimerActive \in BOOLEAN
    /\ moveStep = StepForSlider(clamp(DefaultMoveStep, STEP_MIN, STEP_MAX))
    /\ isInstalled = FALSE
    /\ eventFilters = <<>>
    /\ hudCount = 0
    /\ enabledChecked = FALSE
    /\ enabledText = "ENABLE"
    /\ stepSliderValue = clamp(DefaultMoveStep, STEP_MIN, STEP_MAX)
    /\ stepValueLabel = FormatStep(DefaultMoveStep)
    /\ lastOp = "init"
    /\ prevKeys = movingKeys
    /\ prevInstalled = FALSE
    /\ focusPanel = NoPanel
    /\ lastKey = ""
    /\ lastRepeat = FALSE
    /\ handled = FALSE
    /\ timerOp = "none"
    /\ chordPhase = "idle"
    /\ prevCamPos = NoPos
    /\ moveVector = ZeroVec
    /\ calls = <<>>
    /\ camRead = NoCam
    /\ camSet = NoPos

\* the keys and the camera frame of the fair specification
FairKeys == {Key_Alt, "W", "D"} \cup OtherKeys

FairFrame == [camPos |-> <<0, 0, 10000>>, coiPos |-> ZeroVec, camMat |-> IdentityMat]

\* a timeout of moveTimer
TickStep == \E panel \in Panels : Tick(panel, FairFrame)

NextFair ==
    \/ \E key \in FairKeys, isAutoRepeat \in BOOLEAN : KeyPress(key, isAutoRepeat)
    \/ \E key \in FairKeys, isAutoRepeat \in BOOLEAN : KeyRelease(key, isAutoRepeat)
    \/ TickStep
    \/ \E checked \in BOOLEAN : OnEnabledToggled(checked)

\* QTimer fires every DEFAULT_TIMER_MS while it is active: a timer that stays
\* active fires eventually
SpecFair == Init /\ [][NextFair]_vars /\ WF_vars(TickStep)

\* the handlers of the filter and the enable toggle; the step stays the default
NextFilter ==
    \/ \E key \in Keys, isAutoRepeat \in BOOLEAN : KeyPress(key, isAutoRepeat)
    \/ \E key \in Keys, isAutoRepeat \in BOOLEAN : KeyRelease(key, isAutoRepeat)
    \/ OtherEvent
    \/ \E panel \in Panels, cam \in CameraFrames : Tick(panel, cam)
    \/ \E checked \in BOOLEAN : OnEnabledToggled(checked)

SpecAnyFilter == InitAnyFilter /\ [][NextFilter]_vars

\* ================================================================ claims
KeyOps == {"keyPress", "keyRelease"}

Subscribed == "cameraFilter" \in { eventFilters[i] : i \in DOMAIN eventFilters }

FrameCalls == <<"LookAtSelection", "FrameSelected">>

CallSet == { calls[i] : i \in DOMAIN calls }

\* C1: in every reachable state the movement timer is active if and only if
\* the chord is active (altPressed) and at least one navigation key is held.
C1_TimerIffChordAndKeys ==
    moveTimerActive <=> (altPressed /\ movingKeys # {})

\* a key event has left the timer running with two navigation keys held
C1_Witness ==
    /\ lastOp \in KeyOps
    /\ moveTimerActive
    /\ altPressed
    /\ Cardinality(movingKeys) >= 2

\* C2: after a key-up of the modifier key, whatever was held before, the
\* chord is inactive, no key is held and the timer is inactive.
C2_ModifierReleaseClears ==
    (lastOp = "keyRelease" /\ lastKey = Key_Alt)
        => (~altPressed /\ movingKeys = {} /\ ~moveTimerActive)

\* the modifier was released while navigation keys were held
C2_Witness ==
    /\ lastOp = "keyRelease"
    /\ lastKey = Key_Alt
    /\ Cardinality(prevKeys) >= 2
    /\ movingKeys = {}

\* C3 as stated: an event flagged auto-repeat, key-down or key-up, leaves
\* the held keys as they were.
C3_RepeatNeverChangesKeys ==
    (lastOp \in KeyOps /\ lastRepeat) => movingKeys = prevKeys

\* C3 amended: an event flagged auto-repeat leaves the held keys as they
\* were unless it is a key-up of the modifier key, and a key-up of the
\* modifier key flagged auto-repeat leaves no key held.
C3_RepeatChangesKeysOnlyOnModifierRelease ==
    (lastOp \in KeyOps /\ lastRepeat)
        => IF lastOp = "keyRelease" /\ lastKey = Key_Alt
           THEN movingKeys = {}
           ELSE movingKeys = prevKeys

\* an auto-repeat key-up of a held navigation key has left it held
C3_Witness ==
    /\ lastOp = "keyRelease"
    /\ lastRepeat
    /\ lastKey \in NavKeys
    /\ lastKey \in movingKeys

\* C4: while the controller is not installed there is no input subscription,
\* the movement timer is inactive and no tick fires.
C4_UninstallStopsTimer ==
    ~isInstalled => (~Subscribed /\ ~moveTimerActive /\ lastOp # "tick")

\* C5: there is at most one subscription and one overlay, isInstalled is
\* true exactly when the subscription exists, and an enable request while
\* installed, or a disable request while not installed, changes nothing.
C5_InstallIdempotent ==
    /\ [](/\ Len(eventFilters) <= 1
          /\ hudCount <= 1
          /\ isInstalled <=> Subscribed
          /\ isInstalled <=> (hudCount = 1))
    /\ [][(lastOp' = "toggle" /\ enabledChecked' = isInstalled)
            => UNCHANGED <<isInstalled, eventFilters, hudCount, enabledText,
                           filterVars, stepVars>>]_vars

\* an enable request has arrived while the controller was installed
C5_Witness ==
    /\ lastOp = "toggle"
    /\ prevInstalled
    /\ enabledChecked
    /\ isInstalled
    /\ Len(eventFilters) = 1
    /\ hudCount = 1

\* the sum of the direction-table entries of the held keys, axis by axis:
\* D against A on x, E against Q on y, S against W on z
AxisSum(keys) ==
    <<FixedOne * ((IF "D" \in keys THEN 1 ELSE 0) - (IF "A" \in keys THEN 1 ELSE 0)),
      FixedOne * ((IF "E" \in keys THEN 1 ELSE 0) - (IF "Q" \in keys THEN 1 ELSE 0)),
      FixedOne * ((IF "S" \in keys THEN 1 ELSE 0) - (IF "W" \in keys THEN 1 ELSE 0))>>

\* C6: the composite direction of a tick is the component-wise sum of the
\* table entries of the held keys, and when that sum is the zero vector the
\* tick makes no scene call at all and writes no camera position.
C6_CompositeIsSumAndZeroSkips ==
    lastOp = "tick"
        => /\ moveVector = AxisSum(movingKeys)
           /\ AxisSum(movingKeys) = ZeroVec => (calls = <<>> /\ camSet = NoPos)
           /\ AxisSum(movingKeys) # ZeroVec => calls # <<>>

\* a tick has fired with the opposing keys A and D held
C6_Witness ==
    /\ lastOp = "tick"
    /\ altPressed
    /\ {"A", "D"} \subseteq movingKeys
    /\ moveVector = ZeroVec
    /\ calls = <<>>

\* C7: a tick that finds no focused panel, or a focused panel that is not a
\* model panel, makes no camera query, no position write and no redraw
\* request, and does not ask for the type of a panel that does not exist.
C7_NoViewportNoCameraCalls ==
    (lastOp = "tick" /\ (focusPanel = NoPanel \/ PanelType(focusPanel) # "modelPanel"))
        => /\ CallSet \cap { CameraCalls[i] : i \in DOMAIN CameraCalls } = {}
           /\ camRead = NoCam
           /\ camSet = NoPos
           /\ focusPanel = NoPanel => "getPanel.typeOf" \notin CallSet

\* a tick with W held has found the outliner focused
C7_Witness ==
    /\ lastOp = "tick"
    /\ movingKeys = {"W"}
    /\ focusPanel = "outlinerPanel1"
    /\ calls = <<"getPanel.withFocus", "getPanel.typeOf">>

\* C8: the step lies in [STEP_MIN, STEP_MAX] and is the last slider value
\* (in hundredths) brought into that range.
C8_StepClamped ==
    /\ moveStep >= STEP_MIN
    /\ moveStep <= STEP_MAX
    /\ moveStep = (IF stepSliderValue < STEP_MIN THEN STEP_MIN
                   ELSE IF stepSliderValue > STEP_MAX THEN STEP_MAX
                   ELSE stepSliderValue)

\* the slider handler has received a value above the slider's range
C8_Witness ==
    /\ lastOp = "slider"
    /\ stepSliderValue > STEP_MAX
    /\ moveStep = STEP_MAX

\* P + normalize(localForward * M) * (S * distance(C, P) * MOVE_SCALE_FACTOR)
ExpectedForward(cam, step) ==
    VecAdd(cam.camPos,
           VecScale(Normal(VecMat(<<0, 0, -FixedOne>>, cam.camMat)),
                    RDiv(step * Length(VecSub(cam.coiPos, cam.camPos)),
                         STEP_DIV * MOVE_SCALE_DIV)))

\* C9: a tick with only the forward key held writes
\* P + normalize(localForward * M) * (S * distance(C, P) * 0.1); with S = 0.1,
\* P = (0,0,10), C = (0,0,0) and M the identity it writes (0,0,9.9).
C9_ForwardStep ==
    (lastOp = "tick" /\ movingKeys = {"W"} /\ camRead # NoCam)
        => /\ camSet = ExpectedForward(camRead, moveStep)
           /\ (/\ moveStep = 10
               /\ camRead = [camPos |-> <<0, 0, 10000>>, coiPos |-> ZeroVec,
                             camMat |-> IdentityMat])
                  => camSet = <<0, 0, 9900>>

\* the tick of the scenario has fired
C9_Witness ==
    /\ lastOp = "tick"
    /\ movingKeys = {"W"}
    /\ moveStep = 10
    /\ camRead = [camPos |-> <<0, 0, 10000>>, coiPos |-> ZeroVec,
                  camMat |-> IdentityMat]
    /\ camSet = <<0, 0, 9900>>

\* C10: a key event fires the frame action exactly when it is a key-down of
\* the frame key that is not an auto-repeat and arrives while the chord is
\* active; a key-down of the frame key leaves the held keys, the chord and
\* the timer as they were.
C10_FrameOncePerPress ==
    lastOp \in KeyOps
        => /\ (calls = FrameCalls)
                <=> (lastOp = "keyPress" /\ lastKey = Key_F /\ ~lastRepeat /\ altPressed)
           /\ calls \in {<<>>, FrameCalls}
           /\ (lastOp = "keyPress" /\ lastKey = Key_F) => movingKeys = prevKeys

\* C11: from a key-up of the modifier until a key-down of the modifier and
\* then a non-repeat key-down of a navigation key have been received, the
\* timer is inactive and no tick fires, so no tick writes a camera position,
\* whatever auto-repeat key-downs of navigation keys arrive meanwhile.
C11_NoMoveUntilRearmed ==
    chordPhase # "armed"
        => /\ ~moveTimerActive
           /\ movingKeys = {}
           /\ lastOp # "tick"
           /\ camSet = NoPos

\* the modifier was released and pressed again and an auto-repeat key-down
\* of a navigation key has arrived since
C11_Witness ==
    /\ chordPhase = "modifier"
    /\ altPressed
    /\ lastOp = "keyPress"
    /\ lastKey \in NavKeys
    /\ lastRepeat
    /\ ~moveTimerActive

\* C12: the enable button is checked, and captioned DISABLE, exactly when
\* the controller is installed, and the step shown is the controller's step.
C12_PanelShowsControllerState ==
    /\ enabledChecked <=> isInstalled
    /\ enabledText = (IF isInstalled THEN "DISABLE" ELSE "ENABLE")
    /\ stepValueLabel * STEP_DIV = moveStep * FixedOne

\* the slider handler has received a value below the range while installed
C12_Witness ==
    /\ lastOp = "slider"
    /\ stepSliderValue < STEP_MIN
    /\ isInstalled
    /\ enabledChecked
    /\ stepValueLabel = 10

\* C13: a tick leaves the chord, the held keys, the step and the timer's
\* activity as they were; a tick that fires without the chord or without a
\* held key makes no scene call; and the timer goes from active to inactive
\* only in a key event, by its stop call.
C13_TickOnlyMovesCamera ==
    /\ []((lastOp = "tick" /\ (~altPressed \/ movingKeys = {}))
            => (calls = <<>> /\ camRead = NoCam /\ camSet = NoPos))
    /\ [][/\ lastOp' = "tick"
               => UNCHANGED <<altPressed, movingKeys, moveStep, moveTimerActive>>
          /\ (moveTimerActive /\ ~moveTimerActive')
               => (lastOp' \in KeyOps /\ timerOp' = "stop")]_vars

\* a tick has fired with keys held and the chord off, and the timer still runs
C13_Witness ==
    /\ lastOp = "tick"
    /\ ~altPressed
    /\ movingKeys # {}
    /\ moveTimerActive
    /\ calls = <<>>

\* C14: moveTimer.start() runs only in a non-repeat key-down of a navigation
\* key accepted under the chord while no key is held and the timer is
\* inactive; a key-down that arrives while the timer is active makes no timer
\* call; moveTimer.stop() runs only on an active timer and a key-up on an
\* inactive timer changes nothing of it; the timer's activity changes only by
\* these calls, so every start is followed by a stop before the next start.
C14_StartOnceStopOnce ==
    [][/\ timerOp' = "start"
            => /\ lastOp' = "keyPress"
               /\ lastKey' \in NavKeys
               /\ ~lastRepeat'
               /\ altPressed
               /\ movingKeys = {}
               /\ ~moveTimerActive
               /\ moveTimerActive'
       /\ (lastOp' = "keyPress" /\ moveTimerActive)
            => (timerOp' = "none" /\ moveTimerActive')
       /\ timerOp' = "stop" => (moveTimerActive /\ ~moveTimerActive')
       /\ (lastOp' = "keyRelease" /\ ~moveTimerActive)
            => (timerOp' = "none" /\ ~moveTimerActive')
       /\ moveTimerActive' # moveTimerActive => timerOp' # "none"]_vars

\* a second navigation key has been accepted while the timer was running
C14_Witness ==
    /\ lastOp = "keyPress"
    /\ lastKey \in NavKeys
    /\ ~lastRepeat
    /\ prevKeys # {}
    /\ lastKey \notin prevKeys
    /\ lastKey \in movingKeys
    /\ timerOp = "none"
    /\ moveTimerActive

\* C15: a key-down or key-up of a key that is not the modifier, the frame
\* key or a navigation key leaves the chord, the held keys and the timer as
\* they were and makes no scene call.
C15_UnknownKeyIgnored ==
    [][(lastOp' \in KeyOps /\ lastKey' \notin ({Key_Alt, Key_F} \cup NavKeys))
         => (/\ UNCHANGED <<altPressed, movingKeys, moveTimerActive>>
             /\ calls' = <<>>
             /\ timerOp' = "none")]_vars

\* an unknown key was released while the camera was moving
C15_Witness ==
    /\ lastOp = "keyRelease"
    /\ lastKey \in OtherKeys
    /\ ~lastRepeat
    /\ altPressed
    /\ movingKeys # {}
    /\ moveTimerActive

\* position + normalize(normalize(sum of the held keys) * matrix)
\*              * (step * distance(centre, position) * MOVE_SCALE_FACTOR)
ExpectedMove(cam, keys, step) ==
    VecAdd(cam.camPos,
           VecScale(Normal(VecMat(Normal(AxisSum(keys)), cam.camMat)),
                    RDiv(step * Length(VecSub(cam.coiPos, cam.camPos)),
                         STEP_DIV * MOVE_SCALE_DIV)))

CallCount(name) == Cardinality({ i \in DOMAIN calls : calls[i] = name })

\* C16: a tick that fires under the chord with a non-zero composite and a
\* model panel focused makes exactly one position write, followed at once by
\* exactly one redraw request, and the position written is computed from the
\* position, centre of interest and matrix queried in that tick.
C16_OneWriteFromThisTicksFrame ==
    (/\ lastOp = "tick"
     /\ altPressed
     /\ AxisSum(movingKeys) # ZeroVec
     /\ focusPanel # NoPanel
     /\ PanelType(focusPanel) = "modelPanel")
        => /\ CallCount("xform.setTranslation") = 1
           /\ CallCount("refresh") = 1
           /\ calls[Len(calls) - 1] = "xform.setTranslation"
           /\ calls[Len(calls)] = "refresh"
           /\ camRead \in CameraFrames
           /\ camSet = ExpectedMove(camRead, movingKeys, moveStep)

\* two ticks in a row, the camera found elsewhere by the second one
C16_Witness ==
    /\ lastOp = "tick"
    /\ prevCamPos # NoPos
    /\ camRead # NoCam
    /\ camRead.camPos # prevCamPos
    /\ Cardinality(movingKeys) >= 2
    /\ camSet = ExpectedMove(camRead, movingKeys, moveStep)
    /\ camSet # camRead.camPos

\* a non-repeat key-down of the navigation key k has just been accepted
KeyAccepted(k) ==
    /\ lastOp = "keyPress"
    /\ lastKey = k
    /\ ~lastRepeat
    /\ altPressed
    /\ k \in movingKeys

\* C17 as stated: once a navigation key is accepted, a tick eventually fires
\* with that key held, unless a key-up that ends the chord or empties the
\* held keys is delivered first.
C17_TickUnlessChordEnds ==
    \A k \in NavKeys \cap FairKeys :
        KeyAccepted(k) ~> \/ (lastOp = "tick" /\ k \in movingKeys)
                          \/ (lastOp = "keyRelease" /\ (~altPressed \/ movingKeys = {}))

\* C17 amended: once a navigation key is accepted, a tick eventually fires
\* with that key held, unless a key-up that takes that key out of the held
\* keys (its own key-up or the modifier's) is delivered first.
C17_TickUnlessKeyReleased ==
    \A k \in NavKeys \cap FairKeys :
        KeyAccepted(k) ~> \/ (lastOp = "tick" /\ k \in movingKeys)
                          \/ (lastOp = "keyRelease" /\ k \notin movingKeys)

\* a tick has fired right after the key-down of W was accepted
C17_Witness ==
    /\ lastOp = "tick"
    /\ prevKeys = {"W"}
    /\ movingKeys = {"W"}
    /\ altPressed
    /\ camSet # NoPos

\* C18: the held keys are navigation keys of KEY_VECTORS and are held only
\* while the chord is on; a navigation key-down without the chord is not
\* inserted and neither calls nor starts the timer.
C18_HeldKeysNeedChord ==
    /\ movingKeys \subseteq DOMAIN KEY_VECTORS
    /\ movingKeys # {} => altPressed
    /\ (lastOp = "keyPress" /\ lastKey \in NavKeys /\ ~altPressed)
           => (/\ lastKey \notin movingKeys
               /\ movingKeys = prevKeys
               /\ timerOp = "none"
               /\ ~moveTimerActive)

\* a navigation key went down, not as a repeat, while the chord was off
C18_Witness ==
    /\ lastOp = "keyPress"
    /\ lastKey = "W"
    /\ ~lastRepeat
    /\ ~altPressed
    /\ isInstalled
    /\ movingKeys = {}

\* C19: install and uninstall leave the chord, the held keys, the timer and
\* the step as they were, and nothing changes the chord or the held keys while the
\* controls are uninstalled, so an install finds them as the uninstall left
\* them.
C19_InstallKeepsFilterState ==
    [][/\ (lastOp' = "toggle" => UNCHANGED <<filterVars, stepVars>>)
       /\ (~isInstalled => UNCHANGED <<altPressed, movingKeys>>)]_vars

\* the controls were installed again with the chord on and a key held
C19_Witness ==
    /\ lastOp = "toggle"
    /\ isInstalled
    /\ ~prevInstalled
    /\ altPressed
    /\ movingKeys # {}

\* C20: eventFilter returns False for every event it receives, the key events
\* it acted on included.
C20_NeverConsumes ==
    lastOp \in (KeyOps \cup {"otherEvent"}) => ~handled

\* the frame key was acted on and the event was still reported as not handled
C20_Witness ==
    /\ lastOp = "keyPress"
    /\ lastKey = Key_F
    /\ altPressed
    /\ calls = FrameCalls
    /\ ~handled

====
